---- MODULE Spec2Model ----
(***************************************************************************)
(* The document server of cli_project/mcp_server.py: an in-memory dict     *)
(* `docs` from document id to text, two tools (read_doc_contents,          *)
(* edit_document), two resources (list_documents, get_document) and two    *)
(* prompts (format, summarize).  The host framework serves one request at  *)
(* a time, so every handler is one atomic action.                          *)
(*                                                                         *)
(* A Python str is modelled as the sequence of its characters (one-element *)
(* strings); a message built by an f-string is the sequence of its literal *)
(* fragments and interpolated values.  The dict is modelled as the         *)
(* sequence of its items in insertion order, which is what a Python dict   *)
(* is.                                                                     *)
(***************************************************************************)
EXTENDS Naturals, Sequences, FiniteSets

VARIABLES
    docs,      \* the module-level dict: sequence of [key, value] items
    last,      \* the call being answered and what it returned or raised; op "none" when idle
    before,    \* history: the value of docs when that call began
    prevEdit,  \* history: the call answered just before, if it was a successful edit
    edited,    \* history: the ids some successful edit_document call has targeted
    nedits     \* history: the number of successful edit_document calls so far

vars == <<docs, last, before, prevEdit, edited, nedits>>

----------------------------------------------------------------------------
(* Bounds of the exploration. *)

\* successful edits explored along one run
MaxEdits == 2

\* longest document content explored
MaxLen == 250

----------------------------------------------------------------------------
(* The seeded contents, mcp_server.py lines 7-14. *)

\* "This deposition covers the testimony of Angela Smith, P.E."   (line 8)
deposition_md ==
    << "T", "h", "i", "s", " ", "d", "e", "p", "o", "s", "i", "t", "i", "o", "n", " ",
       "c", "o", "v", "e", "r", "s", " ", "t", "h", "e", " ", "t", "e", "s", "t", "i",
       "m", "o", "n", "y", " ", "o", "f", " ", "A", "n", "g", "e", "l", "a", " ", "S",
       "m", "i", "t", "h", ",", " ", "P", ".", "E", "." >>

\* "The report details the state of a 20m condenser tower."   (line 9)
report_pdf ==
    << "T", "h", "e", " ", "r", "e", "p", "o", "r", "t", " ", "d", "e", "t", "a", "i",
       "l", "s", " ", "t", "h", "e", " ", "s", "t", "a", "t", "e", " ", "o", "f", " ",
       "a", " ", "2", "0", "m", " ", "c", "o", "n", "d", "e", "n", "s", "e", "r", " ",
       "t", "o", "w", "e", "r", "." >>

\* "These financials outline the project's budget and expenditures."   (line 10)
financials_docx ==
    << "T", "h", "e", "s", "e", " ", "f", "i", "n", "a", "n", "c", "i", "a", "l", "s",
       " ", "o", "u", "t", "l", "i", "n", "e", " ", "t", "h", "e", " ", "p", "r", "o",
       "j", "e", "c", "t", "'", "s", " ", "b", "u", "d", "g", "e", "t", " ", "a", "n",
       "d", " ", "e", "x", "p", "e", "n", "d", "i", "t", "u", "r", "e", "s", "." >>

\* "This document presents the projected future performance of the system."   (line 11)
outlook_pdf ==
    << "T", "h", "i", "s", " ", "d", "o", "c", "u", "m", "e", "n", "t", " ", "p", "r",
       "e", "s", "e", "n", "t", "s", " ", "t", "h", "e", " ", "p", "r", "o", "j", "e",
       "c", "t", "e", "d", " ", "f", "u", "t", "u", "r", "e", " ", "p", "e", "r", "f",
       "o", "r", "m", "a", "n", "c", "e", " ", "o", "f", " ", "t", "h", "e", " ", "s",
       "y", "s", "t", "e", "m", "." >>

\* "The plan outlines the steps for the project's implementation."   (line 12)
plan_md ==
    << "T", "h", "e", " ", "p", "l", "a", "n", " ", "o", "u", "t", "l", "i", "n", "e",
       "s", " ", "t", "h", "e", " ", "s", "t", "e", "p", "s", " ", "f", "o", "r", " ",
       "t", "h", "e", " ", "p", "r", "o", "j", "e", "c", "t", "'", "s", " ", "i", "m",
       "p", "l", "e", "m", "e", "n", "t", "a", "t", "i", "o", "n", "." >>

\* "These specifications define the technical requirements for the equipment."   (line 13)
spec_txt ==
    << "T", "h", "e", "s", "e", " ", "s", "p", "e", "c", "i", "f", "i", "c", "a", "t",
       "i", "o", "n", "s", " ", "d", "e", "f", "i", "n", "e", " ", "t", "h", "e", " ",
       "t", "e", "c", "h", "n", "i", "c", "a", "l", " ", "r", "e", "q", "u", "i", "r",
       "e", "m", "e", "n", "t", "s", " ", "f", "o", "r", " ", "t", "h", "e", " ", "e",
       "q", "u", "i", "p", "m", "e", "n", "t", "." >>


SeedDocs ==
    << [key |-> "deposition.md",   value |-> deposition_md],
       [key |-> "report.pdf",      value |-> report_pdf],
       [key |-> "financials.docx", value |-> financials_docx],
       [key |-> "outlook.pdf",     value |-> outlook_pdf],
       [key |-> "plan.md",         value |-> plan_md],
       [key |-> "spec.txt",        value |-> spec_txt] >>

----------------------------------------------------------------------------
(* Python dict operations used by the handlers. *)

\* k in d
DictHas(d, k) == \E i \in DOMAIN d : d[i].key = k

\* d[k], for k in d
DictGet(d, k) == d[CHOOSE i \in DOMAIN d : d[i].key = k].value

\* the assignment d[k] = v left out
DictSetLost(d, k, v) == d

\* an assignment that lands on every item
DictSetEvery(d, k, v) == [i \in DOMAIN d |-> [key |-> d[i].key, value |-> v]]

\* d[k] = v : overwrite in place, or insert at the end
DictSet(d, k, v) ==
    IF DictHas(d, k)
    THEN [i \in DOMAIN d |-> IF d[i].key = k THEN [key |-> k, value |-> v] ELSE d[i]]
    ELSE Append(d, [key |-> k, value |-> v])

\* list(d.keys())
DictKeys(d) == [i \in DOMAIN d |-> d[i].key]

----------------------------------------------------------------------------
(* Python str operations used by edit_document. *)

\* sub occurs in s at (1-based) position i
MatchAt(s, sub, i) ==
    /\ i + Len(sub) - 1 <= Len(s)
    /\ \A k \in 1 .. Len(sub) : s[i + k - 1] = sub[k]

\* sub in s  (the empty string is in every string)
Contains(s, sub) ==
    \E i \in 1 .. Len(s) + 1 : MatchAt(s, sub, i)

RECURSIVE InterleaveRange(_, _, _, _)
\* what s.replace("", new) writes for positions lo..hi of s: new before each
\* character (the range is halved to keep the evaluation shallow)
InterleaveRange(s, new, lo, hi) ==
    IF lo > hi THEN <<>>
    ELSE IF lo = hi THEN new \o <<s[lo]>>
    ELSE LET mid == (lo + hi) \div 2
         IN  InterleaveRange(s, new, lo, mid) \o InterleaveRange(s, new, mid + 1, hi)

RECURSIVE ScanRange(_, _, _, _, _, _)
\* the left-to-right scan of s.replace(old, new), old non-empty, over positions
\* lo..hi of s, the first skip of which belong to an occurrence found before lo:
\* what the scan writes, and how many positions after hi belong to an
\* occurrence it found (the range is halved to keep the evaluation shallow)
ScanRange(s, old, new, lo, hi, skip) ==
    IF lo > hi THEN [out |-> <<>>, skip |-> skip]
    ELSE IF lo = hi THEN
        IF skip > 0 THEN [out |-> <<>>, skip |-> skip - 1]
        ELSE IF MatchAt(s, old, lo) THEN [out |-> new, skip |-> Len(old) - 1]
        ELSE [out |-> <<s[lo]>>, skip |-> 0]
    ELSE LET mid == (lo + hi) \div 2
             left == ScanRange(s, old, new, lo, mid, skip)
             right == ScanRange(s, old, new, mid + 1, hi, left.skip)
         IN  [out |-> left.out \o right.out, skip |-> right.skip]

\* s.replace(old, new, 1): only the first occurrence is replaced
ReplaceFirst(s, old, new) ==
    IF ~Contains(s, old) THEN s
    ELSE LET p == CHOOSE i \in 1 .. Len(s) + 1 :
                      /\ MatchAt(s, old, i)
                      /\ \A j \in 1 .. i - 1 : ~MatchAt(s, old, j)
         IN  SubSeq(s, 1, p - 1) \o new \o SubSeq(s, p + Len(old), Len(s))

\* s.replace(old, new) with an empty old treated as absent
ReplaceNothingWhenEmpty(s, old, new) ==
    IF old = <<>> THEN s ELSE ScanRange(s, old, new, 1, Len(s), 0).out

\* s.replace(old, new)
Replace(s, old, new) ==
    IF old = <<>>
    THEN InterleaveRange(s, new, 1, Len(s)) \o new
    ELSE ScanRange(s, old, new, 1, Len(s), 0).out

----------------------------------------------------------------------------
(* Outcomes of a call. *)

Return(v) == [kind |-> "return", value |-> v]

\* raise ValueError(f"Document '{doc_id}' not found")
NotFound(doc_id) ==
    [kind |-> "ValueError", value |-> <<"Document '", doc_id, "' not found">>]

\* raise ValueError(f"String '{old_string}' not found in document '{doc_id}'")
SubstringNotFound(old_string, doc_id) ==
    [kind |-> "ValueError",
     value |-> <<"String '">> \o old_string
                 \o <<"' not found in document '", doc_id, "'">>]

\* f"Successfully replaced '{old_string}' with '{new_string}' in '{doc_id}'"
EditMessage(doc_id, old_string, new_string) ==
    <<"Successfully replaced '">> \o old_string \o <<"' with '">> \o new_string
        \o <<"' in '", doc_id, "'">>

\* the text format(doc_id) builds
FormatText(doc_id) ==
    << "Please rewrite the document '", doc_id, "' in proper markdown format.",
       "", "Steps:",
       "1. Use the read_doc_contents tool to fetch the current document content",
       "2. Reformat the content using proper markdown syntax (headers, lists, emphasis, etc.)",
       "3. Use the edit_document tool to replace the old content with the new markdown-formatted content",
       "4. Confirm the changes were successful",
       "",
       "Make sure to preserve all the original information while improving the formatting." >>

\* the text summarize(doc_id) builds
SummarizeText(doc_id) ==
    << "Please provide a concise summary of the document '", doc_id, "'.",
       "", "Steps:",
       "1. Use the read_doc_contents tool to fetch the document content",
       "2. Analyze the key points and main ideas",
       "3. Provide a brief, clear summary (2-3 sentences)",
       "",
       "Focus on the most important information and keep it concise." >>

Call(op, doc_id, old_string, new_string, outcome) ==
    [op |-> op, doc_id |-> doc_id, old_string |-> old_string,
     new_string |-> new_string, outcome |-> outcome]

----------------------------------------------------------------------------
(* Inputs. *)

SeedIds == {"deposition.md", "report.pdf", "financials.docx", "outlook.pdf",
            "plan.md", "spec.txt"}

\* the ids callers pass: every seeded id and one that is not in the store
DocIds == SeedIds \cup {"missing.md"}

\* the ids callers pass to edit_document
EditIds == {"plan.md", "report.pdf", "missing.md"}

\* short strings callers pass as old_string and new_string: the empty string,
\* a character of the seeded contents, a string that overlaps itself, and a
\* character no seeded content has
Strs == { <<>>, <<"e">>, <<"e", "e">>, <<"Z">> }

implementation ==
    <<"i", "m", "p", "l", "e", "m", "e", "n", "t", "a", "t", "i", "o", "n">>

rollout == <<"r", "o", "l", "l", "o", "u", "t">>

\* the <<old_string, new_string>> pairs callers pass to edit_document: every
\* pair of the short strings, and 'implementation' -> 'rollout'
EditArgs == (Strs \X Strs) \cup {<<implementation, rollout>>}

----------------------------------------------------------------------------
(* The state after the module is loaded. *)

NoCall == Call("none", "", <<>>, <<>>, Return(<<>>))

NoEdit == [valid |-> FALSE, doc_id |-> "", old_string |-> <<>>, new_string |-> <<>>,
           content |-> <<>>]

Init ==
    /\ docs = SeedDocs
    /\ last = NoCall
    /\ before = SeedDocs
    /\ prevEdit = NoEdit
    /\ edited = {}
    /\ nedits = 0

----------------------------------------------------------------------------
(* The handlers.  mcp.run serves one request at a time: a handler runs     *)
(* when no answer is pending, and respond delivers its answer.             *)

Idle == last.op = "none"

\* read_doc_contents with docs.get(doc_id, "") in place of the membership test
ReadOutcomeDefault(d, doc_id) ==
    IF ~DictHas(d, doc_id) THEN Return(<<>>) ELSE Return(DictGet(d, doc_id))

\* what read_doc_contents(doc_id) returns or raises on store d
ReadOutcome(d, doc_id) ==
    IF ~DictHas(d, doc_id) THEN NotFound(doc_id) ELSE Return(DictGet(d, doc_id))

read_doc_contents(doc_id) ==
    /\ Idle
    /\ last' = Call("read_doc_contents", doc_id, <<>>, <<>>, ReadOutcome(docs, doc_id))
    /\ before' = docs
    /\ UNCHANGED <<docs, prevEdit, edited, nedits>>

\* edit_document with docs.get(doc_id, "") in place of the membership test
edit_document_unchecked(doc_id, old_string, new_string) ==
    LET content == IF DictHas(docs, doc_id) THEN DictGet(docs, doc_id) ELSE <<>>
    IN  /\ Idle
        /\ before' = docs
        /\ UNCHANGED prevEdit
        /\ IF ~Contains(content, old_string) THEN
               /\ last' = Call("edit_document", doc_id, old_string, new_string,
                               SubstringNotFound(old_string, doc_id))
               /\ UNCHANGED <<docs, edited, nedits>>
           ELSE
               /\ nedits < MaxEdits
               /\ LET replaced == Replace(content, old_string, new_string)
                  IN  /\ Len(replaced) <= MaxLen
                      /\ docs' = DictSet(docs, doc_id, replaced)
               /\ last' = Call("edit_document", doc_id, old_string, new_string,
                               Return(EditMessage(doc_id, old_string, new_string)))
               /\ edited' = edited \cup {doc_id}
               /\ nedits' = nedits + 1

\* edit_document without the test that old_string is in the content
edit_document_untested(doc_id, old_string, new_string) ==
    /\ Idle
    /\ before' = docs
    /\ UNCHANGED prevEdit
    /\ IF ~DictHas(docs, doc_id) THEN
           /\ last' = Call("edit_document", doc_id, old_string, new_string,
                           NotFound(doc_id))
           /\ UNCHANGED <<docs, edited, nedits>>
       ELSE
           /\ nedits < MaxEdits
           /\ LET replaced == Replace(DictGet(docs, doc_id), old_string, new_string)
              IN  /\ Len(replaced) <= MaxLen
                  /\ docs' = DictSet(docs, doc_id, replaced)
           /\ last' = Call("edit_document", doc_id, old_string, new_string,
                           Return(EditMessage(doc_id, old_string, new_string)))
           /\ edited' = edited \cup {doc_id}
           /\ nedits' = nedits + 1

\* edit_document calling replace(new_string, old_string)
edit_document_swapped(doc_id, old_string, new_string) ==
    /\ Idle
    /\ before' = docs
    /\ UNCHANGED prevEdit
    /\ IF ~DictHas(docs, doc_id) THEN
           /\ last' = Call("edit_document", doc_id, old_string, new_string,
                           NotFound(doc_id))
           /\ UNCHANGED <<docs, edited, nedits>>
       ELSE IF ~Contains(DictGet(docs, doc_id), old_string) THEN
           /\ last' = Call("edit_document", doc_id, old_string, new_string,
                           SubstringNotFound(old_string, doc_id))
           /\ UNCHANGED <<docs, edited, nedits>>
       ELSE
           /\ nedits < MaxEdits
           /\ LET replaced == Replace(DictGet(docs, doc_id), new_string, old_string)
              IN  /\ Len(replaced) <= MaxLen
                  /\ docs' = DictSet(docs, doc_id, replaced)
           /\ last' = Call("edit_document", doc_id, old_string, new_string,
                           Return(EditMessage(doc_id, old_string, new_string)))
           /\ edited' = edited \cup {doc_id}
           /\ nedits' = nedits + 1

edit_document(doc_id, old_string, new_string) ==
    /\ Idle
    /\ before' = docs
    /\ UNCHANGED prevEdit
    /\ IF ~DictHas(docs, doc_id) THEN
           /\ last' = Call("edit_document", doc_id, old_string, new_string,
                           NotFound(doc_id))
           /\ UNCHANGED <<docs, edited, nedits>>
       ELSE IF ~Contains(DictGet(docs, doc_id), old_string) THEN
           /\ last' = Call("edit_document", doc_id, old_string, new_string,
                           SubstringNotFound(old_string, doc_id))
           /\ UNCHANGED <<docs, edited, nedits>>
       ELSE
           /\ nedits < MaxEdits                      \* explored up to MaxEdits edits
           /\ LET replaced == Replace(DictGet(docs, doc_id), old_string, new_string)
              IN  /\ Len(replaced) <= MaxLen         \* explored up to MaxLen characters
                  /\ docs' = DictSet(docs, doc_id, replaced)
           /\ last' = Call("edit_document", doc_id, old_string, new_string,
                           Return(EditMessage(doc_id, old_string, new_string)))
           /\ edited' = edited \cup {doc_id}
           /\ nedits' = nedits + 1

list_documents ==
    /\ Idle
    /\ last' = Call("list_documents", "", <<>>, <<>>, Return(DictKeys(docs)))
    /\ before' = docs
    /\ UNCHANGED <<docs, prevEdit, edited, nedits>>

\* get_document answering from the seeded contents
GetOutcomeSeed(d, doc_id) ==
    IF ~DictHas(d, doc_id) THEN NotFound(doc_id) ELSE Return(DictGet(SeedDocs, doc_id))

\* what get_document(doc_id) returns or raises on store d
GetOutcome(d, doc_id) ==
    IF ~DictHas(d, doc_id) THEN NotFound(doc_id) ELSE Return(DictGet(d, doc_id))

get_document(doc_id) ==
    /\ Idle
    /\ last' = Call("get_document", doc_id, <<>>, <<>>, GetOutcome(docs, doc_id))
    /\ before' = docs
    /\ UNCHANGED <<docs, prevEdit, edited, nedits>>

\* format with the membership test of the tools
format_checked(doc_id) ==
    /\ Idle
    /\ last' = Call("format", doc_id, <<>>, <<>>,
                    IF ~DictHas(docs, doc_id) THEN NotFound(doc_id)
                    ELSE Return(FormatText(doc_id)))
    /\ before' = docs
    /\ UNCHANGED <<docs, prevEdit, edited, nedits>>

format(doc_id) ==
    /\ Idle
    /\ last' = Call("format", doc_id, <<>>, <<>>, Return(FormatText(doc_id)))
    /\ before' = docs
    /\ UNCHANGED <<docs, prevEdit, edited, nedits>>

summarize(doc_id) ==
    /\ Idle
    /\ last' = Call("summarize", doc_id, <<>>, <<>>, Return(SummarizeText(doc_id)))
    /\ before' = docs
    /\ UNCHANGED <<docs, prevEdit, edited, nedits>>

\* the answer is delivered and the server waits for the next request
respond ==
    /\ ~Idle
    /\ last' = NoCall
    /\ before' = docs
    /\ prevEdit' = IF last.op = "edit_document" /\ last.outcome.kind = "return"
                   THEN [valid |-> TRUE, doc_id |-> last.doc_id,
                         old_string |-> last.old_string,
                         new_string |-> last.new_string,
                         content |-> DictGet(before, last.doc_id)]
                   ELSE NoEdit
    /\ UNCHANGED <<docs, edited, nedits>>

Next ==
    \/ \E doc_id \in DocIds : read_doc_contents(doc_id)
    \/ \E doc_id \in EditIds, args \in EditArgs :
           edit_document(doc_id, args[1], args[2])
    \/ list_documents
    \/ \E doc_id \in DocIds : get_document(doc_id)
    \/ \E doc_id \in DocIds : format(doc_id)
    \/ \E doc_id \in DocIds : summarize(doc_id)
    \/ respond

Spec == Init /\ [][Next]_vars

----------------------------------------------------------------------------
(* Vocabulary of the properties, stated independently of the handlers. *)

\* sub is a contiguous part of s
Occurs(s, sub) ==
    \E i \in 0 .. Len(s) - Len(sub) : SubSeq(s, i + 1, i + Len(sub)) = sub

Chars(s) == {s[i] : i \in DOMAIN s}

Keys(d) == {d[i].key : i \in DOMAIN d}

RECURSIVE ScanTakes(_, _, _)
\* a left-to-right scan for non-overlapping occurrences of old takes the one at
\* position p: old is there, and no occurrence taken further left reaches p
ScanTakes(s, old, p) ==
    /\ p + Len(old) - 1 <= Len(s)
    /\ SubSeq(s, p, p + Len(old) - 1) = old
    /\ \A q \in 1 .. p - 1 : q + Len(old) > p => ~ScanTakes(s, old, q)

\* the positions of the occurrences the scan takes
Taken(s, old) == {p \in 1 .. Len(s) + 1 : ScanTakes(s, old, p)}

RECURSIVE Concat(_, _, _)
\* pieces[lo] \o ... \o pieces[hi]
Concat(pieces, lo, hi) ==
    IF lo > hi THEN <<>>
    ELSE IF lo = hi THEN pieces[lo]
    ELSE Concat(pieces, lo, (lo + hi) \div 2) \o Concat(pieces, ((lo + hi) \div 2) + 1, hi)

\* s with every occurrence the scan takes replaced by new
AllReplaced(s, old, new) ==
    LET taken == Taken(s, old)
        covered(i) == \E p \in taken : p <= i /\ i < p + Len(old)
        piece(i) == (IF i \in taken THEN new ELSE <<>>)
                    \o (IF i <= Len(s) /\ ~covered(i) THEN <<s[i]>> ELSE <<>>)
    IN  Concat([i \in 1 .. Len(s) + 1 |-> piece(i)], 1, Len(s) + 1)

\* new before every character of s and once at the end
Interleaved(s, new) ==
    LET m == Len(new)
    IN  [p \in 1 .. Len(s) + (Len(s) + 1) * m |->
            IF (p - 1) % (m + 1) < m
            THEN new[((p - 1) % (m + 1)) + 1]
            ELSE s[((p - 1) \div (m + 1)) + 1]]

EditSucceeded ==
    /\ last.op = "edit_document"
    /\ last.outcome = Return(EditMessage(last.doc_id, last.old_string, last.new_string))

\* "The plan outlines the steps for the project's rollout."
plan_md_rollout ==
    << "T", "h", "e", " ", "p", "l", "a", "n", " ", "o", "u", "t", "l", "i", "n", "e",
       "s", " ", "t", "h", "e", " ", "s", "t", "e", "p", "s", " ", "f", "o", "r", " ",
       "t", "h", "e", " ", "p", "r", "o", "j", "e", "c", "t", "'", "s", " ", "r", "o",
       "l", "l", "o", "u", "t", "." >>

----------------------------------------------------------------------------
(* The properties. *)

\* C1: whatever calls have been made, the store's keys are exactly the six
\* seeded ids, and list_documents returns exactly those six ids.
C1_KeysAreTheSeededIds ==
    /\ Keys(docs) = SeedIds
    /\ Cardinality(Keys(docs)) = 6
    /\ last.op = "list_documents" =>
           /\ last.outcome.kind = "return"
           /\ {last.outcome.value[i] : i \in DOMAIN last.outcome.value} = SeedIds

\* list_documents answers after documents of the store have been edited
C1_Witness ==
    /\ last.op = "list_documents"
    /\ nedits >= 2
    /\ \E i \in DOMAIN docs : docs[i] # SeedDocs[i]

\* C2: edit_document on an existing id with an old_string that does not occur
\* in the content raises the substring error and leaves the whole store as it was.
C2_FailedEditChangesNothing ==
    (/\ last.op = "edit_document"
     /\ DictHas(before, last.doc_id)
     /\ ~Occurs(DictGet(before, last.doc_id), last.old_string))
    => /\ last.outcome = SubstringNotFound(last.old_string, last.doc_id)
       /\ docs = before

\* an edit fails on a document that earlier edits have changed
C2_Witness ==
    /\ last.op = "edit_document"
    /\ last.doc_id \in edited
    /\ last.outcome = SubstringNotFound(last.old_string, last.doc_id)
    /\ DictGet(docs, last.doc_id) # DictGet(SeedDocs, last.doc_id)

\* C3: read_doc_contents, get_document and edit_document on an id that is not
\* a key raise the not-found error naming the id and leave the store as it
\* was; read_doc_contents and get_document on a key return.
C3_UnknownIdIsNotFound ==
    /\ (/\ last.op \in {"read_doc_contents", "get_document", "edit_document"}
        /\ last.doc_id \notin Keys(before))
       => /\ last.outcome.kind = "ValueError"
          /\ last.outcome.value = <<"Document '", last.doc_id, "' not found">>
          /\ docs = before
    /\ (/\ last.op \in {"read_doc_contents", "get_document"}
        /\ last.doc_id \in Keys(before))
       => last.outcome.kind = "return"

\* an edit with an old_string that is in every content is refused for an unknown id
C3_Witness ==
    /\ last.op = "edit_document"
    /\ last.doc_id = "missing.md"
    /\ last.old_string = <<>>
    /\ last.outcome.kind = "ValueError"
    /\ nedits >= 1

\* C4: edit_document on an existing id whose content holds old_string succeeds,
\* the content becomes the old one with every occurrence a left-to-right scan
\* finds replaced, no other document changes, and a read_doc_contents that
\* follows returns the new content; plan.md 'implementation' -> 'rollout' gives
\* "The plan outlines the steps for the project's rollout."
C4_EditReplacesEveryOccurrence ==
    /\ (/\ last.op = "edit_document"
        /\ DictHas(before, last.doc_id)
        /\ Occurs(DictGet(before, last.doc_id), last.old_string))
       => /\ EditSucceeded
          /\ DictGet(docs, last.doc_id)
                 = AllReplaced(DictGet(before, last.doc_id),
                               last.old_string, last.new_string)
          /\ Len(docs) = Len(before)
          /\ \A i \in DOMAIN docs :
                 /\ docs[i].key = before[i].key
                 /\ docs[i].key # last.doc_id => docs[i] = before[i]
    /\ (/\ last.op = "read_doc_contents"
        /\ prevEdit.valid
        /\ prevEdit.doc_id = last.doc_id)
       => last.outcome = Return(AllReplaced(prevEdit.content, prevEdit.old_string,
                                            prevEdit.new_string))
    /\ (/\ last.op = "read_doc_contents"
        /\ prevEdit.valid
        /\ prevEdit.doc_id = "plan.md" /\ last.doc_id = "plan.md"
        /\ prevEdit.content = plan_md
        /\ prevEdit.old_string = implementation
        /\ prevEdit.new_string = rollout)
       => last.outcome = Return(plan_md_rollout)

\* a read follows an edit that replaced several occurrences, two of them overlapping
C4_Witness ==
    /\ last.op = "read_doc_contents"
    /\ prevEdit.valid
    /\ prevEdit.doc_id = last.doc_id
    /\ prevEdit.old_string = <<"e", "e">>
    /\ Occurs(prevEdit.content, <<"e", "e", "e">>)
    /\ Cardinality(Taken(prevEdit.content, prevEdit.old_string)) >= 2
    /\ last.outcome.value # prevEdit.content

\* the call being answered is edit_document(id, new, old), right after a
\* successful edit_document(id, old, new)
ReverseOfPrevEdit ==
    /\ last.op = "edit_document"
    /\ prevEdit.valid
    /\ last.doc_id = prevEdit.doc_id
    /\ last.old_string = prevEdit.new_string
    /\ last.new_string = prevEdit.old_string

\* the call being answered repeats the successful edit answered just before
RepeatOfPrevEdit ==
    /\ last.op = "edit_document"
    /\ prevEdit.valid
    /\ last.doc_id = prevEdit.doc_id
    /\ last.old_string = prevEdit.old_string
    /\ last.new_string = prevEdit.new_string

\* C5 as stated: after a successful edit_document(id, old, new), the following
\* edit_document(id, new, old) restores the content the document had before
\* the first edit.
C5_RoundTripRestores ==
    ReverseOfPrevEdit => DictGet(docs, last.doc_id) = prevEdit.content

\* C5: after a successful edit_document(id, old, new) in which new is not
\* empty and no character of new occurs in the content of the document, the
\* following edit_document(id, new, old) succeeds and restores the content the
\* document had before the first edit.
C5_RoundTripRestoresWhenNewIsFresh ==
    (/\ ReverseOfPrevEdit
     /\ prevEdit.new_string # <<>>
     /\ Chars(prevEdit.new_string) \cap Chars(prevEdit.content) = {})
    => /\ EditSucceeded
       /\ DictGet(docs, last.doc_id) = prevEdit.content

\* several occurrences of "e" were replaced by "Z" and the reverse edit put them back
C5_Witness ==
    /\ ReverseOfPrevEdit
    /\ EditSucceeded
    /\ last.old_string = <<"Z">>
    /\ last.new_string = <<"e">>
    /\ ~Occurs(prevEdit.content, <<"Z">>)
    /\ DictGet(before, last.doc_id) # prevEdit.content
    /\ DictGet(docs, last.doc_id) = prevEdit.content

NoCommonChar(a, b) == Chars(a) \cap Chars(b) = {}

\* C6 as stated: when old is not a part of new, the content after a successful
\* edit_document(id, old, new) holds no occurrence of old, and the same call
\* made again at once raises the substring error and changes nothing.
C6_OldGoneUnlessNewHoldsOld ==
    /\ (EditSucceeded /\ ~Occurs(last.new_string, last.old_string))
       => ~Occurs(DictGet(docs, last.doc_id), last.old_string)
    /\ (RepeatOfPrevEdit /\ ~Occurs(last.new_string, last.old_string))
       => /\ last.outcome = SubstringNotFound(last.old_string, last.doc_id)
          /\ docs = before

\* when old is not empty, has no character in common with new, and new is not
\* empty or old is a single character
OldCannotReappear(old, new) ==
    /\ old # <<>>
    /\ NoCommonChar(old, new)
    /\ new # <<>> \/ Len(old) = 1

\* C6: when old is not empty, has no character in common with new, and new is
\* not empty or old is one character, the content after a successful
\* edit_document(id, old, new) holds no occurrence of old, and the same call
\* made again at once raises the substring error and changes nothing.
C6_OldGoneWhenNoCommonChar ==
    /\ (EditSucceeded /\ OldCannotReappear(last.old_string, last.new_string))
       => ~Occurs(DictGet(docs, last.doc_id), last.old_string)
    /\ (RepeatOfPrevEdit /\ OldCannotReappear(last.old_string, last.new_string))
       => /\ last.outcome = SubstringNotFound(last.old_string, last.doc_id)
          /\ docs = before

\* an edit that replaced several occurrences is made again and refused
C6_Witness ==
    /\ RepeatOfPrevEdit
    /\ OldCannotReappear(last.old_string, last.new_string)
    /\ last.new_string # <<>>
    /\ Cardinality(Taken(prevEdit.content, prevEdit.old_string)) >= 2
    /\ last.outcome = SubstringNotFound(last.old_string, last.doc_id)

\* C7: a seeded id that no successful edit_document has targeted still has
\* its seeded content, and read_doc_contents of it returns that content.
C7_UneditedKeepsSeed ==
    /\ \A id \in SeedIds \ edited : DictGet(docs, id) = DictGet(SeedDocs, id)
    /\ (last.op = "read_doc_contents" /\ last.doc_id \in SeedIds \ edited)
       => last.outcome = Return(DictGet(SeedDocs, last.doc_id))

\* an unedited document is read after edits of others, failed edits of itself included
C7_Witness ==
    /\ last.op = "read_doc_contents"
    /\ last.doc_id = "plan.md"
    /\ "plan.md" \notin edited
    /\ nedits >= 2
    /\ DictGet(docs, "report.pdf") # report_pdf
    /\ last.outcome = Return(plan_md)

\* C8: in every state, for every id, get_document and read_doc_contents give
\* the same answer: the same current content or the same not-found error.
C8_GetEqualsRead ==
    /\ \A id \in DocIds : GetOutcome(docs, id) = ReadOutcome(docs, id)
    /\ last.op = "get_document" => last.outcome = ReadOutcome(before, last.doc_id)
    /\ last.op = "read_doc_contents" => last.outcome = GetOutcome(before, last.doc_id)
    /\ (last.op = "get_document" /\ last.doc_id \in Keys(docs))
       => last.outcome = Return(DictGet(docs, last.doc_id))

\* get_document answers with edited content
C8_Witness ==
    /\ last.op = "get_document"
    /\ last.doc_id \in edited
    /\ last.outcome.kind = "return"
    /\ last.outcome.value # DictGet(SeedDocs, last.doc_id)
    /\ last.outcome = ReadOutcome(docs, last.doc_id)

\* C9: only edit_document changes the store; format and summarize return
\* their text for every id, ids that are not in the store included.
C9_OnlyEditChangesTheStore ==
    /\ last.op # "edit_document" => docs = before
    /\ last.op = "format" =>
           /\ last.outcome.kind = "return"
           /\ last.outcome.value[2] = last.doc_id
    /\ last.op = "summarize" =>
           /\ last.outcome.kind = "return"
           /\ last.outcome.value[2] = last.doc_id

\* format answers for an id that is not in the store
C9_Witness ==
    /\ last.op = "format"
    /\ last.doc_id \notin Keys(docs)
    /\ last.outcome.kind = "return"
    /\ nedits >= 1

\* C10: edit_document on an existing id with an empty old_string succeeds and
\* the content becomes new_string before every character and once at the end;
\* with a non-empty new_string the content gets strictly longer.
C10_EmptyOldInterleaves ==
    (/\ last.op = "edit_document"
     /\ DictHas(before, last.doc_id)
     /\ last.old_string = <<>>)
    => LET old_content == DictGet(before, last.doc_id)
           new_content == DictGet(docs, last.doc_id)
       IN  /\ EditSucceeded
           /\ new_content = Interleaved(old_content, last.new_string)
           /\ Len(new_content)
                  = Len(old_content) + (Len(old_content) + 1) * Len(last.new_string)
           /\ last.new_string # <<>> => Len(new_content) > Len(old_content)

\* an empty old_string is accepted a second time and the content grows again
C10_Witness ==
    /\ EditSucceeded
    /\ last.old_string = <<>>
    /\ last.new_string # <<>>
    /\ prevEdit.valid
    /\ prevEdit.doc_id = last.doc_id
    /\ prevEdit.old_string = <<>>
    /\ prevEdit.new_string # <<>>
    /\ Len(DictGet(docs, last.doc_id)) > Len(DictGet(before, last.doc_id))
    /\ Len(DictGet(before, last.doc_id)) > Len(prevEdit.content)

====
